---- MODULE Spec2Model ----
(***************************************************************************)
(* GenerationMap (substrate/src/generation/mod.rs): the memoization cache  *)
(* that hands out one handle per distinct key, tracks each handle's        *)
(* Loading/Exists slot and registers the names of published objects.       *)
(***************************************************************************)
EXTENDS FiniteSets, Integers, Sequences, TLC

\* ---------------------------------------------------------------- bounds
\* Largest number of arena slots the model reserves.
MaxSlots == 3
\* Largest number of set calls in one behaviour.
MaxSets == 2
\* Width in bits of the model's usize (the targets' is 32 or 64).
UsizeBits == 3

\* Keys (K), values (V) and names (ArcStr) the callers pass in.
Keys == {"k1", "k2"}
Vals == {"v1", "v2"}
BaseNames == {"x", "x_2"}
SetNames == {"x", "x_2", "x_3"}

\* S::null(), the key of no slot.
NullId == 0

VARIABLES
    target_map,  \* HashMap<K, S>: key -> handle
    name_map,    \* HashMap<ArcStr, S>: name -> handle
    objects,     \* SlotMap<S, ObjectStatus<V>>: slot i holds the status of handle i
    last,        \* the most recent call: operation, arguments, outcome
    issued,      \* history: key -> handles get_id/get have returned for it
    mustGen,     \* history: key -> number of MustGenerate answers for it
    published,   \* history: value -> number of set calls that passed it
    setVal,      \* history: handle -> value of the latest set call on it
    lastClaim,   \* history: name -> handle of the latest set call under it
    dupClaim,    \* history: some name has been passed to set for two different handles
    genLog,      \* history: the handles gen_id has returned, in call order
    hid,         \* caller -> the handle it reserved with gen_id (NullId: none)
    held,        \* caller -> the name alloc_name issued to it ("none": none)
    heldBase,    \* caller -> the base name it passed to alloc_name
    fresh,       \* caller -> no set call has run since its alloc_name call
    done,        \* caller -> its latest publication: base, name, handle, use of the base
    stale,       \* some caller has passed set a name issued before another set call
    useCount,    \* base name -> number of publications under a name issued for it
    slice,       \* SliceRange: the range the index calls are made on
    sliced       \* the most recent SliceRange call: operation, build, outcome

vars ==
    <<target_map, name_map, objects, last,
      issued, mustGen, published, setVal, lastClaim, dupClaim, genLog,
      hid, held, heldBase, fresh, done, stale, useCount, slice, sliced>>
map == <<target_map, name_map, objects>>
hist == <<issued, mustGen, published, setVal, lastClaim, dupClaim, genLog>>
\* What the callers of the map hold between their calls.
callers == <<hid, held, heldBase, fresh, done, stale, useCount>>
\* The signal ranges of schematic/signal.rs, which the map never touches.
signal == <<slice, sliced>>

\* ------------------------------------------------ ObjectStatus<V>
Loading == [status |-> "Loading", value |-> "none"]
Exists(v) == [status |-> "Exists", value |-> v]

\* The handles of the arena: the keys the callers hold and pass back in.
Handles == 1..Len(objects)

\* The callers that reserve, name and publish objects side by side.
Callers == {"a", "b"}

\* A caller that has published nothing.
NoPublication == [base |-> "none", name |-> "none", id |-> NullId, use |-> 0]

\* A call record with no arguments and no outcome.
NoCall ==
    [op |-> "none", key |-> "none", id |-> NullId, name |-> "none",
     value |-> "none", tag |-> "none", rid |-> NullId, rval |-> "none",
     rname |-> "none", rvals |-> <<>>, probes |-> 0]

\* The process has unwound from a panic: no further call is made.
Panicked == last.tag = "Panic"

\* Number of set calls made so far.
SetCalls == published["v1"] + published["v2"]

\* ------------------------------------------------ SlotMap::insert
\* The key SlotMap::insert hands out for the next slot (slots are never removed,
\* so the keys are 1, 2, 3, ... in order of insertion).
\* (variant: the key of the slot before the new one)
NewKey_stale(objs) == IF Len(objs) = 0 THEN 1 ELSE Len(objs)

\* (variant: the key of the slot after the new one)
NewKey_ahead(objs) == Len(objs) + 2

NewKey(objs) == Len(objs) + 1

\* ------------------------------------------------ get_id
\* v.insert(mkey) in the Entry::Vacant arm.
\* (variant: the key is not recorded)
VacantInsert_forget(tm, key, mkey) == tm

\* (variant: the table is replaced by the new entry)
VacantInsert_only(tm, key, mkey) == (key :> mkey)

VacantInsert(tm, key, mkey) == (key :> mkey) @@ tm

\* get_id(key), recorded as a call of op (get calls get_id).
get_id_as(op, key) ==
    IF key \in DOMAIN target_map
    THEN /\ last' = [NoCall EXCEPT !.op = op, !.key = key,
                        !.tag = "Exists", !.rid = target_map[key]]
         /\ issued' = [issued EXCEPT ![key] = @ \cup {target_map[key]}]
         /\ UNCHANGED <<map, mustGen, published, setVal, lastClaim, dupClaim, genLog>>
    ELSE /\ Len(objects) < MaxSlots
         /\ LET mkey == NewKey(objects) IN
            /\ objects' = Append(objects, Loading)
            /\ target_map' = VacantInsert(target_map, key, mkey)
            /\ last' = [NoCall EXCEPT !.op = op, !.key = key,
                           !.tag = "MustGenerate", !.rid = mkey]
            /\ issued' = [issued EXCEPT ![key] = @ \cup {mkey}]
            /\ mustGen' = [mustGen EXCEPT ![key] = @ + 1]
         /\ UNCHANGED <<name_map, published, setVal, lastClaim, dupClaim, genLog>>

get_id(key) ==
    /\ ~Panicked
    /\ get_id_as("get_id", key)
    /\ UNCHANGED <<callers, signal>>

\* ------------------------------------------------ get_by_id
\* The match on self.objects[id]: Err for Loading, Ok(v) for Exists(v).
\* (variant: a Loading slot is read like an Exists one)
Lookup_lenient(objs, id) ==
    [tag |-> "Ok", rval |-> objs[id].value]

Lookup(objs, id) ==
    IF objs[id].status = "Loading"
    THEN [tag |-> "Err", rval |-> "none"]
    ELSE [tag |-> "Ok", rval |-> objs[id].value]

get_by_id(id) ==
    /\ ~Panicked
    /\ id \in Handles
    /\ last' = [NoCall EXCEPT !.op = "get_by_id", !.id = id,
                   !.tag = Lookup(objects, id).tag,
                   !.rval = Lookup(objects, id).rval]
    /\ UNCHANGED <<map, hist, callers, signal>>

\* ------------------------------------------------ get
\* What .expect(..) makes of the result of get_by_id: an Err panics.
\* (variants: the Err is handed on; the Err is replaced by a default value)
Expect_recover(r) == r

Expect_default(r) ==
    IF r.tag = "Err" THEN [tag |-> "Ok", rval |-> "none"] ELSE r

Expect(r) ==
    IF r.tag = "Err" THEN [tag |-> "Panic", rval |-> "none"] ELSE r

get(key) ==
    /\ ~Panicked
    /\ IF key \in DOMAIN target_map
       THEN \* get_id returned Exists(id): resolve it with get_by_id(id).expect(..)
            LET id == target_map[key]
                r == Expect(Lookup(objects, id))
            IN  /\ last' = [NoCall EXCEPT !.op = "get", !.key = key,
                               !.tag = IF r.tag = "Ok" THEN "Exists" ELSE r.tag,
                               !.rval = r.rval]
                /\ UNCHANGED <<map, hist>>
       ELSE get_id_as("get", key)
    /\ UNCHANGED <<callers, signal>>

\* ------------------------------------------------ gen_id
\* gen_id(), whoever calls it.
gen_id_do ==
    /\ ~Panicked
    /\ Len(objects) < MaxSlots
    /\ objects' = Append(objects, Loading)
    /\ last' = [NoCall EXCEPT !.op = "gen_id", !.tag = "Ok", !.rid = NewKey(objects)]
    /\ genLog' = Append(genLog, NewKey(objects))
    /\ UNCHANGED <<target_map, name_map, issued, mustGen, published, setVal,
                   lastClaim, dupClaim>>

gen_id ==
    /\ gen_id_do
    /\ UNCHANGED <<callers, signal>>

\* ------------------------------------------------ set
\* self.objects[id] = ObjectStatus::Exists(arc.clone())
\* (variant: the value lands in the first slot)
StoreValue_first(objs, id, value) == [objs EXCEPT ![1] = Exists(value)]

\* (variant: a slot already published is handed back for regeneration)
StoreValue_toggle(objs, id, value) ==
    [objs EXCEPT ![id] = IF @.status = "Exists" THEN Loading ELSE Exists(value)]

StoreValue(objs, id, value) == [objs EXCEPT ![id] = Exists(value)]

\* self.name_map.insert(name.into(), id)
\* (variant: entry(name).or_insert(id), which keeps an earlier registration)
RegisterName_keep(nm, name, id) ==
    IF name \in DOMAIN nm THEN nm ELSE (name :> id) @@ nm

RegisterName(nm, name, id) == (name :> id) @@ nm

\* set(id, name, value), whoever calls it.
set_do(id, name, value) ==
    /\ ~Panicked
    /\ id \in Handles
    /\ objects' = StoreValue(objects, id, value)
    /\ name_map' = RegisterName(name_map, name, id)
    /\ last' = [NoCall EXCEPT !.op = "set", !.id = id, !.name = name,
                   !.value = value, !.tag = "Ok", !.rval = value]
    /\ published' = [published EXCEPT ![value] = @ + 1]
    /\ setVal' = (id :> value) @@ setVal
    /\ lastClaim' = (name :> id) @@ lastClaim
    /\ dupClaim' = (dupClaim \/ (name \in DOMAIN lastClaim /\ lastClaim[name] # id))
    /\ UNCHANGED <<target_map, issued, mustGen, genLog>>

set(id, name, value) ==
    /\ SetCalls < MaxSets
    /\ set_do(id, name, value)
    /\ UNCHANGED <<callers, signal>>

\* ------------------------------------------------ names
is_name_used(nm, name) == name \in DOMAIN nm

is_name_available(nm, name) == ~is_name_used(nm, name)

\* arcstr::format!("{}_{}", base_name, i)
Format(base_name, i) == base_name \o "_" \o ToString(i)

\* The loop of alloc_name from candidate i on.
RECURSIVE Probe(_, _, _)
Probe(nm, base_name, i) ==
    LET name == Format(base_name, i) IN
    IF is_name_available(nm, name) THEN name ELSE Probe(nm, base_name, i + 1)

\* The first candidate the loop of alloc_name tries (let mut i = 2).
FirstSuffix == 2

\* The number of candidates the loop of alloc_name tests from candidate i on.
RECURSIVE ProbeSteps(_, _, _)
ProbeSteps(nm, base_name, i) ==
    IF is_name_available(nm, Format(base_name, i))
    THEN 1
    ELSE 1 + ProbeSteps(nm, base_name, i + 1)

\* The number of names alloc_name tests, base_name included.
alloc_name_probes(nm, base_name) ==
    IF is_name_available(nm, base_name)
    THEN 1
    ELSE 1 + ProbeSteps(nm, base_name, FirstSuffix)

\* (variant: the loop gives up after its first candidate)
alloc_name_giveup(nm, base_name) ==
    IF is_name_available(nm, base_name)
    THEN base_name
    ELSE IF is_name_available(nm, Format(base_name, FirstSuffix))
         THEN Format(base_name, FirstSuffix)
         ELSE "none"

\* (variant: the loop starts one candidate late)
alloc_name_from3(nm, base_name) ==
    IF is_name_available(nm, base_name)
    THEN base_name
    ELSE Probe(nm, base_name, FirstSuffix + 1)

alloc_name(nm, base_name) ==
    IF is_name_available(nm, base_name)
    THEN base_name
    ELSE Probe(nm, base_name, FirstSuffix)

\* alloc_name(base_name), whoever calls it.
\* (variant: the name issued is entered in the name-table, for no handle yet)
alloc_name_reserve(base_name) ==
    /\ ~Panicked
    /\ last' = [NoCall EXCEPT !.op = "alloc_name", !.name = base_name,
                   !.tag = "Ok", !.rname = alloc_name(name_map, base_name),
                   !.probes = alloc_name_probes(name_map, base_name)]
    /\ name_map' = RegisterName(name_map, alloc_name(name_map, base_name), NullId)
    /\ UNCHANGED <<target_map, objects, hist>>

alloc_name_do(base_name) ==
    /\ ~Panicked
    /\ last' = [NoCall EXCEPT !.op = "alloc_name", !.name = base_name,
                   !.tag = "Ok", !.rname = alloc_name(name_map, base_name),
                   !.probes = alloc_name_probes(name_map, base_name)]
    /\ UNCHANGED <<map, hist>>

alloc_name_call(base_name) ==
    /\ alloc_name_do(base_name)
    /\ UNCHANGED <<callers, signal>>

\* ------------------------------------------------ values
\* objects.values().filter_map(..): the values of the Exists slots, in slot order.
\* (variant: no filter on the slot status)
RECURSIVE values_all(_)
values_all(objs) ==
    IF objs = <<>> THEN <<>>
    ELSE <<Head(objs).value>> \o values_all(Tail(objs))

RECURSIVE values(_)
values(objs) ==
    IF objs = <<>> THEN <<>>
    ELSE (IF Head(objs).status = "Exists" THEN <<Head(objs).value>> ELSE <<>>)
         \o values(Tail(objs))

values_call ==
    /\ ~Panicked
    /\ last' = [NoCall EXCEPT !.op = "values", !.tag = "Ok", !.rvals = values(objects)]
    /\ UNCHANGED <<map, hist, callers, signal>>

\* ------------------------------------------------ callers
\* A caller reserves a handle for an object it is about to publish.
caller_gen_id(c) ==
    /\ hid[c] = NullId
    /\ gen_id_do
    /\ hid' = [hid EXCEPT ![c] = last'.rid]
    /\ UNCHANGED <<held, heldBase, fresh, done, stale, useCount, signal>>

\* A caller asks for a name derived from base_name and keeps it.
caller_alloc_name(c, base_name) ==
    /\ alloc_name_do(base_name)
    /\ held' = [held EXCEPT ![c] = last'.rname]
    /\ heldBase' = [heldBase EXCEPT ![c] = base_name]
    /\ fresh' = [fresh EXCEPT ![c] = TRUE]
    /\ UNCHANGED <<hid, done, stale, useCount, signal>>

\* A caller publishes its object under the name it was issued.
caller_set(c, value) ==
    /\ hid[c] # NullId
    /\ held[c] # "none"
    /\ set_do(hid[c], held[c], value)
    /\ done' = [done EXCEPT ![c] = [base |-> heldBase[c], name |-> held[c],
                                    id |-> hid[c],
                                    use |-> useCount[heldBase[c]] + 1]]
    /\ useCount' = [useCount EXCEPT ![heldBase[c]] = @ + 1]
    /\ stale' = (stale \/ ~fresh[c])
    /\ fresh' = [d \in Callers |-> FALSE]
    /\ hid' = [hid EXCEPT ![c] = NullId]
    /\ held' = [held EXCEPT ![c] = "none"]
    /\ heldBase' = [heldBase EXCEPT ![c] = "none"]
    /\ UNCHANGED signal

\* ------------------------------------------------ the map in use
\* GenerationMap::new()
Init ==
    /\ target_map = <<>>
    /\ name_map = <<>>
    /\ objects = <<>>
    /\ last = NoCall
    /\ issued = [k \in Keys |-> {}]
    /\ mustGen = [k \in Keys |-> 0]
    /\ published = [v \in Vals |-> 0]
    /\ setVal = <<>>
    /\ lastClaim = <<>>
    /\ dupClaim = FALSE
    /\ genLog = <<>>
    /\ hid = [c \in Callers |-> NullId]
    /\ held = [c \in Callers |-> "none"]
    /\ heldBase = [c \in Callers |-> "none"]
    /\ fresh = [c \in Callers |-> FALSE]
    /\ done = [c \in Callers |-> NoPublication]
    /\ stale = FALSE
    /\ useCount = [b \in BaseNames |-> 0]
    \* SliceRange::one()
    /\ slice = [start |-> 0, end |-> 1]
    /\ sliced = [op |-> "none", checks |-> FALSE, tag |-> "none",
                 start |-> 0, end |-> 0, wtag |-> "none", width |-> 0]

Next ==
    \/ \E key \in Keys : get_id(key)
    \/ \E id \in Handles : get_by_id(id)
    \/ \E key \in Keys : get(key)
    \/ gen_id
    \/ \E id \in Handles, name \in SetNames, value \in Vals : set(id, name, value)
    \/ \E base_name \in BaseNames : alloc_name_call(base_name)
    \/ values_call

Spec == Init /\ [][Next]_vars

\* The map used by callers that each reserve a handle, ask for a name and
\* publish under it, their calls interleaved.
NextCallers ==
    \/ \E c \in Callers : caller_gen_id(c)
    \/ \E c \in Callers, base_name \in BaseNames : caller_alloc_name(c, base_name)
    \/ \E c \in Callers, value \in Vals : caller_set(c, value)

SpecCallers == Init /\ [][NextCallers]_vars

\* ================================================ schematic/signal.rs
\* The values of a usize of UsizeBits bits.
UsizeSize == 2 ^ UsizeBits
Usize == 0 .. (UsizeSize - 1)

\* The index types SliceRange implements IndexOwned for.
IndexKinds ==
    {"usize", "Range", "RangeFrom", "RangeFull", "RangeInclusive", "RangeTo",
     "RangeToInclusive"}

\* usize arithmetic: a result out of range panics in a build with overflow
\* checks (checks = TRUE, the dev profile) and wraps in a build without (the
\* release profile).
Overflows(x) == x < 0 \/ x >= UsizeSize
Wrap(x) == (x + UsizeSize) % UsizeSize

\* The outcomes of a call: a panic, or the SliceRange returned.
Panic == [tag |-> "Panic", start |-> 0, end |-> 0]
Ok(r) == [tag |-> "Ok", start |-> r.start, end |-> r.end]

\* SliceRange::new
new(start, end) == [start |-> start, end |-> end]

\* SliceRange::with_width: debug_assert!(end > 0) is compiled only into a build
\* with debug assertions, the dev profile.
with_width(end, checks) ==
    IF checks /\ ~(end > 0) THEN Panic ELSE Ok(new(0, end))

\* SliceRange::one
one == with_width(1, TRUE)

\* SliceRange::width: self.end - self.start
width(r, checks) ==
    IF ~Overflows(r.end - r.start)
    THEN [tag |-> "Ok", width |-> r.end - r.start]
    ELSE IF checks
         THEN [tag |-> "Panic", width |-> 0]
         ELSE [tag |-> "Wrapped", width |-> Wrap(r.end - r.start)]

\* impl IndexOwned<usize> for SliceRange
index_usize(r, index, checks) ==
    LET sum == r.start + index
        idx == Wrap(sum)
    IN  IF checks /\ Overflows(sum) THEN Panic
        ELSE IF ~(idx < r.end) THEN Panic
        ELSE IF checks /\ Overflows(idx + 1) THEN Panic
        ELSE Ok(new(idx, Wrap(idx + 1)))

\* impl IndexOwned<Range<usize>> for SliceRange
index_Range(r, istart, iend, checks) ==
    LET hi == r.start + iend
        lo == r.start + istart
    IN  IF checks /\ Overflows(hi) THEN Panic
        ELSE IF ~(Wrap(hi) <= r.end) THEN Panic
        ELSE IF checks /\ Overflows(lo) THEN Panic
        ELSE Ok(new(Wrap(lo), Wrap(hi)))

\* impl IndexOwned<RangeFrom<usize>> for SliceRange
index_RangeFrom(r, istart, checks) ==
    LET lo == r.start + istart
    IN  IF checks /\ Overflows(lo) THEN Panic
        ELSE IF ~(Wrap(lo) <= r.end) THEN Panic
        ELSE Ok(new(Wrap(lo), r.end))

\* impl IndexOwned<RangeFull> for SliceRange
index_RangeFull(r) == Ok(r)

\* impl IndexOwned<RangeInclusive<usize>> for SliceRange
index_RangeInclusive(r, istart, iend, checks) ==
    LET hi == r.start + iend
        lo == r.start + istart
    IN  IF checks /\ Overflows(hi) THEN Panic
        ELSE IF ~(Wrap(hi) < r.end) THEN Panic
        ELSE IF checks /\ Overflows(lo) THEN Panic
        ELSE IF checks /\ Overflows(Wrap(hi) + 1) THEN Panic
        ELSE Ok(new(Wrap(lo), Wrap(Wrap(hi) + 1)))

\* impl IndexOwned<RangeTo<usize>> for SliceRange
index_RangeTo(r, iend, checks) ==
    LET hi == r.start + iend
    IN  IF checks /\ Overflows(hi) THEN Panic
        ELSE IF ~(Wrap(hi) <= r.end) THEN Panic
        ELSE Ok(new(r.start, Wrap(hi)))

\* impl IndexOwned<RangeToInclusive<usize>> for SliceRange
index_RangeToInclusive(r, iend, checks) ==
    LET hi == r.start + iend
    IN  IF checks /\ Overflows(hi) THEN Panic
        ELSE IF ~(Wrap(hi) < r.end) THEN Panic
        ELSE IF checks /\ Overflows(Wrap(hi) + 1) THEN Panic
        ELSE Ok(new(r.start, Wrap(Wrap(hi) + 1)))

\* A call returns res in a build with or without checks; the caller then asks
\* the range it was given for its width.
Returned(op, checks, res) ==
    /\ sliced' = [op |-> op, checks |-> checks, tag |-> res.tag,
                  start |-> res.start, end |-> res.end,
                  wtag |-> IF res.tag = "Ok" THEN width(res, checks).tag ELSE "none",
                  width |-> IF res.tag = "Ok" THEN width(res, checks).width ELSE 0]
    /\ UNCHANGED <<map, last, hist, callers>>

\* The range a constructor returned becomes the one the index calls are made on.
Taken(res) == IF res.tag = "Ok" THEN new(res.start, res.end) ELSE slice

new_call(start, end, checks) ==
    /\ slice' = Taken(Ok(new(start, end)))
    /\ Returned("new", checks, Ok(new(start, end)))

with_width_call(end, checks) ==
    /\ slice' = Taken(with_width(end, checks))
    /\ Returned("with_width", checks, with_width(end, checks))

one_call(checks) ==
    /\ slice' = Taken(one)
    /\ Returned("one", checks, one)

index_usize_call(index, checks) ==
    /\ Returned("usize", checks, index_usize(slice, index, checks))
    /\ UNCHANGED slice

index_Range_call(istart, iend, checks) ==
    /\ Returned("Range", checks, index_Range(slice, istart, iend, checks))
    /\ UNCHANGED slice

index_RangeFrom_call(istart, checks) ==
    /\ Returned("RangeFrom", checks, index_RangeFrom(slice, istart, checks))
    /\ UNCHANGED slice

index_RangeFull_call(checks) ==
    /\ Returned("RangeFull", checks, index_RangeFull(slice))
    /\ UNCHANGED slice

index_RangeInclusive_call(istart, iend, checks) ==
    /\ Returned("RangeInclusive", checks,
                index_RangeInclusive(slice, istart, iend, checks))
    /\ UNCHANGED slice

index_RangeTo_call(iend, checks) ==
    /\ Returned("RangeTo", checks, index_RangeTo(slice, iend, checks))
    /\ UNCHANGED slice

index_RangeToInclusive_call(iend, checks) ==
    /\ Returned("RangeToInclusive", checks,
                index_RangeToInclusive(slice, iend, checks))
    /\ UNCHANGED slice

\* Ranges are built and indexed, in either build.
NextSlice ==
    \/ \E start, end \in Usize, checks \in BOOLEAN : new_call(start, end, checks)
    \/ \E end \in Usize, checks \in BOOLEAN : with_width_call(end, checks)
    \/ \E checks \in BOOLEAN : one_call(checks)
    \/ \E index \in Usize, checks \in BOOLEAN : index_usize_call(index, checks)
    \/ \E istart, iend \in Usize, checks \in BOOLEAN :
           index_Range_call(istart, iend, checks)
    \/ \E istart \in Usize, checks \in BOOLEAN : index_RangeFrom_call(istart, checks)
    \/ \E checks \in BOOLEAN : index_RangeFull_call(checks)
    \/ \E istart, iend \in Usize, checks \in BOOLEAN :
           index_RangeInclusive_call(istart, iend, checks)
    \/ \E iend \in Usize, checks \in BOOLEAN : index_RangeTo_call(iend, checks)
    \/ \E iend \in Usize, checks \in BOOLEAN : index_RangeToInclusive_call(iend, checks)

SpecSlice == Init /\ [][NextSlice]_vars

\* ------------------------------------------------ properties
\* A step that is a call of operation op (every call overwrites last).
Called(op) == last'.op = op /\ vars' # vars

\* Number of entries of the sequence seq equal to v.
Count(seq, v) == Cardinality({i \in DOMAIN seq : seq[i] = v})

\* C1: every get_id/get call made with one key returns the same handle,
\* whatever other calls happen in between.
C1_SameKeySameHandle ==
    \A k \in Keys : Cardinality(issued[k]) <= 1

\* A key asked for again, after a second slot was reserved and the key's
\* handle was published.
C1_Witness ==
    /\ last.op = "get_id"
    /\ last.tag = "Exists"
    /\ issued[last.key] = {last.rid}
    /\ Len(objects) >= 2
    /\ objects[last.rid].status = "Exists"

\* C2: two different keys never get the same handle.
C2_DistinctKeysDistinctHandles ==
    \A k1, k2 \in Keys : k1 # k2 => issued[k1] \cap issued[k2] = {}

\* Both keys have been given a handle.
C2_Witness ==
    /\ \A k \in Keys : issued[k] # {}
    /\ last.op \in {"get_id", "get"}

\* C3: get_id answers MustGenerate for a key exactly once, on the first request
\* (reserving a Loading slot and recording key -> handle); every later get_id
\* for the key answers Exists with that handle and changes nothing.
C3_MustGenerateOnce ==
    [][/\ \A k \in Keys : mustGen'[k] <= 1
       /\ Called("get_id") =>
            LET k == last'.key
                h == last'.rid
            IN  IF issued[k] = {}
                THEN /\ last'.tag = "MustGenerate"
                     /\ mustGen[k] = 0 /\ mustGen'[k] = 1
                     /\ h \notin Handles
                     /\ objects' = Append(objects, Loading)
                     /\ objects'[h] = Loading
                     /\ target_map' = (k :> h) @@ target_map
                     /\ k \notin DOMAIN target_map
                ELSE /\ last'.tag = "Exists"
                     /\ issued[k] = {h}
                     /\ mustGen'[k] = 1
                     /\ UNCHANGED map]_vars

\* A later get_id for a key that was answered MustGenerate before.
C3_Witness ==
    /\ last.op = "get_id"
    /\ last.tag = "Exists"
    /\ mustGen[last.key] = 1

\* C4: get_by_id on a Loading slot returns the error, on an Exists slot the
\* stored value; in both cases the three tables stay as they are.
C4_GetByIdReadsOnly ==
    [][Called("get_by_id") =>
         LET id == last'.id IN
         /\ id \in Handles
         /\ UNCHANGED map
         /\ objects[id].status = "Loading" =>
                last'.tag = "Err" /\ last'.rval = "none"
         /\ objects[id].status = "Exists" =>
                last'.tag = "Ok" /\ last'.rval = objects[id].value]_vars

\* get_by_id has failed on a reserved handle that is still Loading.
C4_Witness ==
    /\ last.op = "get_by_id"
    /\ last.tag = "Err"
    /\ objects[last.id] = Loading
    /\ target_map # <<>>

\* C5: get_by_id(h) returns the value of the latest set on h, whatever calls
\* (set on other handles included) came in between.
C5_GetByIdReturnsSetValue ==
    (last.op = "get_by_id" /\ last.id \in DOMAIN setVal) =>
        (last.tag = "Ok" /\ last.rval = setVal[last.id])

\* get_by_id on a published handle, with another handle published to
\* another value.
C5_Witness ==
    /\ last.op = "get_by_id"
    /\ last.id \in DOMAIN setVal
    /\ \E h \in DOMAIN setVal : setVal[h] # setVal[last.id]

\* C6 as stated: no name is ever passed to set for two different handles.
C6_NamesNeverShared == ~dupClaim

\* C6 as amended: the name-table holds, for each name ever passed to set,
\* exactly the handle of the latest set under it, and no other name.
C6_TableKeepsLatestClaim ==
    \A n \in SetNames \cup DOMAIN name_map \cup DOMAIN lastClaim :
        IF n \notin DOMAIN lastClaim
        THEN ~is_name_used(name_map, n)
        ELSE is_name_used(name_map, n) /\ name_map[n] = lastClaim[n]

\* A second handle has been published under a name already taken.
C6_Witness ==
    /\ dupClaim
    /\ last.op = "set"
    /\ \E h \in DOMAIN setVal : h # last.id
    /\ name_map[last.name] = last.id

\* C7: alloc_name(base) returns base when it is free, else base_k for the
\* smallest k >= 2 with base_k free; the result is never a registered name.
C7_AllocNameFirstFree ==
    last.op = "alloc_name" =>
        LET base == last.name
            res == last.rname
        IN  /\ ~is_name_used(name_map, res)
            /\ IF ~is_name_used(name_map, base)
               THEN res = base
               ELSE \E k \in 2..(Cardinality(DOMAIN name_map) + 2) :
                        /\ res = Format(base, k)
                        /\ \A j \in 2..(k - 1) :
                               is_name_used(name_map, Format(base, j))

\* alloc_name has skipped base and base_2, both registered.
C7_Witness ==
    /\ last.op = "alloc_name"
    /\ last.name = "x"
    /\ last.rname = "x_3"

\* C8 as stated: values() is the multiset of the values passed to set.
C8_ValuesArePublished ==
    \A v \in Vals : Count(values(objects), v) = published[v]

\* C8 as amended: values() has one entry per published handle, the value of
\* the latest set on it, and none for a Loading slot.
C8_ValuesAreLatestPerHandle ==
    /\ Len(values(objects)) = Cardinality(DOMAIN setVal)
    /\ \A v \in Vals :
           Count(values(objects), v) =
               Cardinality({h \in DOMAIN setVal : setVal[h] = v})
    /\ last.op = "values" => last.rvals = values(objects)

\* values() was called with a Loading slot present and a handle set twice.
C8_Witness ==
    /\ last.op = "values"
    /\ \E h \in Handles : objects[h] = Loading
    /\ SetCalls > Cardinality(DOMAIN setVal)
    /\ last.rvals # <<>>

\* C9 as stated: an Exists answer of get_id or get means the slot is Exists.
C9_ExistsMeansPublished ==
    (last.op \in {"get_id", "get"} /\ last.tag = "Exists") =>
        objects[target_map[last.key]].status = "Exists"

\* C9 as amended: an Exists answer of get means the slot is Exists and holds
\* the value returned; an Exists answer of get_id means only that the key has
\* the handle returned.
C9_GetExistsMeansPublished ==
    /\ (last.op = "get" /\ last.tag = "Exists") =>
           /\ last.key \in DOMAIN target_map
           /\ objects[target_map[last.key]] = Exists(last.rval)
           /\ last.rval \in Vals
    /\ (last.op = "get_id" /\ last.tag = "Exists") =>
           /\ last.key \in DOMAIN target_map
           /\ last.rid = target_map[last.key]
           /\ last.rid \in Handles

\* get has answered Exists.
C9_Witness ==
    /\ last.op = "get"
    /\ last.tag = "Exists"

\* get was called for a key whose handle is reserved and not published.
GetOnPending ==
    /\ last.op = "get"
    /\ last.tag # "MustGenerate"
    /\ last.key \in DOMAIN target_map
    /\ objects[target_map[last.key]] = Loading

\* C10 as stated: get on a reserved, unpublished key yields a recoverable error.
C10_GetPendingIsRecoverable == GetOnPending => last.tag = "Err"

\* C10 as amended: get on a reserved, unpublished key panics; it answers
\* MustGenerate or Exists otherwise.
C10_GetPendingPanics ==
    /\ GetOnPending => last.tag = "Panic"
    /\ last.op = "get" => last.tag \in {"MustGenerate", "Exists", "Panic"}
    /\ (last.op = "get" /\ last.tag = "Panic") => GetOnPending

\* get has panicked on a pending key while another handle is published.
C10_Witness ==
    /\ GetOnPending
    /\ last.tag = "Panic"
    /\ setVal # <<>>

\* The handles the key-table holds.
KeyHandles == {target_map[k] : k \in DOMAIN target_map}

\* The handles the name-table holds.
NameHandles == {name_map[n] : n \in DOMAIN name_map}

\* C11: a slot that is Exists stays Exists in every step, further set calls
\* included, and a set call leaves its slot Exists.
C11_ExistsIsTerminal ==
    [][/\ \A h \in Handles :
              objects[h].status = "Exists" => objects'[h].status = "Exists"
       /\ Called("set") => objects'[last'.id].status = "Exists"]_vars

\* set has run twice on one handle.
C11_Witness ==
    /\ last.op = "set"
    /\ SetCalls = 2
    /\ DOMAIN setVal = {last.id}
    /\ objects[last.id].status = "Exists"

\* C12 as stated: the value of an Exists slot never changes.
C12_ValueNeverReplaced ==
    [][\A h \in Handles :
           objects[h].status = "Exists" => objects'[h] = objects[h]]_vars

\* C12 as amended: the value of an Exists slot changes only in a set call on
\* that handle, which stores the value passed.
C12_OnlySetReplaces ==
    [][\A h \in Handles :
           (objects[h].status = "Exists" /\ objects'[h] # objects[h]) =>
               /\ Called("set")
               /\ last'.id = h
               /\ objects'[h] = Exists(last'.value)]_vars

\* One handle has been published twice, with two different values.
C12_Witness ==
    /\ last.op = "set"
    /\ Cardinality(DOMAIN setVal) = 1
    /\ \A v \in Vals : published[v] = 1
    /\ objects[last.id] = Exists(last.value)

\* C13: the handles gen_id returns are pairwise distinct, each names a new
\* Loading slot, and none is a handle get_id/get returns for a key.
C13_GenIdFresh ==
    /\ \A i, j \in DOMAIN genLog : i # j => genLog[i] # genLog[j]
    /\ \A i \in DOMAIN genLog : genLog[i] \in Handles
    /\ \A i \in DOMAIN genLog, k \in Keys : genLog[i] \notin issued[k]
    /\ last.op = "gen_id" =>
           /\ last.rid = genLog[Len(genLog)]
           /\ last.rid = Len(objects)
           /\ objects[last.rid] = Loading

\* gen_id was called twice, with a get_id for a key in between.
C13_Witness ==
    /\ last.op = "gen_id"
    /\ Len(genLog) = 2
    /\ \E k \in Keys : \E h \in issued[k] : genLog[1] < h /\ h < genLog[2]

\* C14: get on a key never requested reserves a Loading slot and answers
\* MustGenerate with its handle, as get_id does; get on a key whose handle is
\* published answers Exists with the stored value and reserves nothing.
C14_GetComposes ==
    [][Called("get") =>
         LET k == last'.key IN
         IF k \notin DOMAIN target_map
         THEN /\ issued[k] = {}
              /\ last'.tag = "MustGenerate"
              /\ last'.rid = Len(objects) + 1
              /\ objects' = Append(objects, Loading)
              /\ target_map' = (k :> last'.rid) @@ target_map
              /\ name_map' = name_map
              /\ issued'[k] = {last'.rid}
         ELSE objects[target_map[k]].status = "Exists" =>
                  /\ last'.tag = "Exists"
                  /\ last'.rval = objects[target_map[k]].value
                  /\ UNCHANGED map]_vars

\* get has answered Exists for the second key, whose value differs from the
\* one published for the first.
C14_Witness ==
    /\ last.op = "get"
    /\ last.tag = "Exists"
    /\ \A k \in Keys : k \in DOMAIN target_map
    /\ \E k \in Keys :
           /\ k # last.key
           /\ objects[target_map[k]].status = "Exists"
           /\ objects[target_map[k]].value # last.rval

\* C15: set(h, name, v) makes the slot of h Exists(v), registers name -> h and
\* returns v; the key-table, the set of handles and every other slot stay.
C15_SetEffect ==
    [][Called("set") =>
         LET h == last'.id
             n == last'.name
             v == last'.value
         IN  /\ h \in Handles
             /\ objects'[h] = Exists(v)
             /\ is_name_used(name_map', n)
             /\ name_map'[n] = h
             /\ last'.tag = "Ok"
             /\ last'.rval = v
             /\ target_map' = target_map
             /\ Len(objects') = Len(objects)
             /\ \A g \in Handles : g # h => objects'[g] = objects[g]
             /\ \A m \in DOMAIN name_map : m # n =>
                    (m \in DOMAIN name_map' /\ name_map'[m] = name_map[m])
             /\ DOMAIN name_map' = DOMAIN name_map \cup {n}]_vars

\* set has published the second handle while the first holds another value.
C15_Witness ==
    /\ last.op = "set"
    /\ last.id = 2
    /\ objects[1].status = "Exists"
    /\ objects[1].value # last.value
    /\ target_map # <<>>

\* C19: every handle in the key-table or in the name-table is a handle of
\* the arena.
C19_TablesPointIntoArena ==
    /\ KeyHandles \subseteq Handles
    /\ NameHandles \subseteq Handles

\* Both tables hold a handle.
C19_Witness ==
    /\ KeyHandles # {}
    /\ NameHandles # {}
    /\ KeyHandles # NameHandles

\* C20: the arena has one slot per distinct key requested and one per gen_id
\* call, and no other.
C20_SlotsAreReservations ==
    Len(objects) = Cardinality({k \in Keys : issued[k] # {}}) + Len(genLog)

\* Slots of both kinds exist, and calls that reserve nothing have run: a
\* repeated request for a key and two set calls.
C20_Witness ==
    /\ Len(genLog) >= 1
    /\ \E k \in Keys : issued[k] # {}
    /\ last.op = "get_id"
    /\ last.tag = "Exists"
    /\ SetCalls = 2

\* The k-th name alloc_name tries for base: base, base_2, base_3, ...
Candidate(base, k) == IF k = 1 THEN base ELSE Format(base, k)

\* Caller c has published an object.
HasPublished(c) == done[c].id # NullId

C17_AllocNameReservesNothing ==
    [][/\ Called("alloc_name") => UNCHANGED map
       /\ \A c1, c2 \in Callers :
              (/\ held'[c1] # "none" /\ held'[c2] # "none"
               /\ fresh'[c1] /\ fresh'[c2]
               /\ heldBase'[c1] = heldBase'[c2]) => held'[c1] = held'[c2]]_vars

\* Two alloc_name calls for one base, a name already registered, with no set
\* call in between.
C17_Witness ==
    /\ last.op = "alloc_name"
    /\ \A c \in Callers : fresh[c] /\ held[c] = "x_2" /\ heldBase[c] = "x"
    /\ is_name_used(name_map, "x")

\* C18: when two callers have published under the same name, they were issued
\* it before either registered it; both handles are Exists and the name-table
\* holds the name for one of them only.
C18_RaceKeepsOneHandle ==
    \A c1, c2 \in Callers :
        (/\ c1 # c2
         /\ HasPublished(c1) /\ HasPublished(c2)
         /\ done[c1].name = done[c2].name) =>
            /\ stale
            /\ dupClaim
            /\ done[c1].id # done[c2].id
            /\ objects[done[c1].id].status = "Exists"
            /\ objects[done[c2].id].status = "Exists"
            /\ name_map[done[c1].name] \in {done[c1].id, done[c2].id}
            /\ Cardinality(DOMAIN name_map) < SetCalls

\* Both callers were issued "x" before either registered it, and both have
\* published under it.
C18_Witness ==
    /\ last.op = "set"
    /\ HasPublished("a") /\ HasPublished("b")
    /\ done["a"].name = "x" /\ done["b"].name = "x"
    /\ done["a"].base = "x" /\ done["b"].base = "x"
    /\ SetCalls = 2

\* C21: a handle gen_id returned is never a value of the key-table.
C21_GenIdNotInKeyTable ==
    /\ \A i \in DOMAIN genLog : genLog[i] \notin KeyHandles
    /\ Cardinality(KeyHandles) + Len(genLog) <= Len(objects)

\* A key was given a handle before and another after a gen_id call.
C21_Witness ==
    /\ Len(genLog) = 1
    /\ \A k \in Keys : k \in DOMAIN target_map
    /\ \E k1, k2 \in Keys : target_map[k1] < genLog[1] /\ genLog[1] < target_map[k2]

\* C22: no handle is the value of two different keys of the key-table.
C22_KeyTableInjective ==
    \A k1, k2 \in DOMAIN target_map :
        k1 # k2 => target_map[k1] # target_map[k2]

\* The key-table holds both keys, with a gen_id slot reserved between them.
C22_Witness ==
    /\ DOMAIN target_map = Keys
    /\ Len(genLog) = 1
    /\ KeyHandles = {1, 3}

\* C23: no step removes a key, a name or a slot; a key keeps its handle and a
\* name once in use stays in use.
C23_EntriesPersist ==
    [][/\ \A k \in DOMAIN target_map :
              k \in DOMAIN target_map' /\ target_map'[k] = target_map[k]
       /\ \A n \in DOMAIN name_map : is_name_used(name_map', n)
       /\ Len(objects') >= Len(objects)]_vars

\* All three tables have grown to two entries or more.
C23_Witness ==
    /\ Cardinality(DOMAIN target_map) = 2
    /\ Cardinality(DOMAIN name_map) = 2
    /\ Len(objects) = 3

\* C24: alloc_name always returns a name, one that is not registered, after
\* testing at most one candidate more than there are registered names.
C24_AllocNameTerminates ==
    last.op = "alloc_name" =>
        /\ last.tag = "Ok"
        /\ last.rname # "none"
        /\ ~is_name_used(name_map, last.rname)
        /\ last.probes >= 1
        /\ last.probes <= Cardinality(DOMAIN name_map) + 1

\* alloc_name has tested as many candidates as the bound allows.
C24_Witness ==
    /\ last.op = "alloc_name"
    /\ Cardinality(DOMAIN name_map) = 2
    /\ last.probes = 3

\* C25: every handle the name-table holds has an Exists slot.
C25_NamedHandlesExist ==
    \A h \in NameHandles : h \in Handles /\ objects[h].status = "Exists"

\* A name is registered while another handle is still Loading.
C25_Witness ==
    /\ NameHandles # {}
    /\ \E h \in Handles : objects[h] = Loading
    /\ last.op = "set"

\* C26: an index call on a range with start <= end that passes its bounds
\* assertion returns a range inside it with start <= end, whose width does not
\* underflow; an index by one usize returns a range of width 1.
C26_IndexStaysInside ==
    (sliced.op \in IndexKinds /\ sliced.tag = "Ok" /\ slice.start <= slice.end) =>
        /\ slice.start <= sliced.start
        /\ sliced.start <= sliced.end
        /\ sliced.end <= slice.end
        /\ sliced.wtag = "Ok"
        /\ (sliced.op = "usize" => sliced.width = 1)
====
